---- MODULE Spec2Model ----
(***************************************************************************)
(* Round-robin PCB simulator (pcb_simulator.cpp).                          *)
(*                                                                         *)
(* main reads a process count and that many (pid, work) pairs from the     *)
(* input stream, rejecting bad input with exit status 1, then runs         *)
(* kernelSimulator with a time quantum of 2 and prints a closing line.     *)
(*                                                                         *)
(* Indices into pcbs are 1-based here (0-based in the C++ vector); the     *)
(* ready queue holds such indices, as in the source.                       *)
(***************************************************************************)
EXTENDS Integers, Sequences, FiniteSets

\* ------------------------------------------------------------------------
\* Bounds of the model
\* ------------------------------------------------------------------------
MaxN == 3
MaxPid == 3
MaxWork == 3

\* A longer work amount, for the runs on valid input only
MaxLongWork == 5

\* The tick counter never passes the total work of the largest input; the
\* cap only keeps the counter finite.
MaxTick == MaxN * (MaxWork + MaxLongWork) + 1

\* ------------------------------------------------------------------------
\* Program constants
\* ------------------------------------------------------------------------
timeQuantum == 2

\* ------------------------------------------------------------------------
\* The input stream: whitespace-delimited tokens.
\*   int     : a well-formed integer               e.g. "3"
\*   intjunk : an integer followed by other text   e.g. "3abc"
\*   junk    : text that does not start an integer e.g. "abc"
\*   eof     : the stream has ended
\* ------------------------------------------------------------------------
IntTok(v) == [kind |-> "int", val |-> v]
IntJunkTok(v) == [kind |-> "intjunk", val |-> v]
JunkTok == [kind |-> "junk", val |-> 0]
EofTok == [kind |-> "eof", val |-> 0]

\* One token with trailing text stands for all of them: its integer prefix
\* is a valid count, pid and work.
TokensOver(vals) ==
    {IntTok(v) : v \in vals} \cup {IntJunkTok(1), JunkTok, EofTok}

CountTokens == TokensOver(-1 .. MaxN)
PidTokens == TokensOver(1 .. MaxPid)
WorkTokens == TokensOver(-1 .. MaxWork)

\* std::cin >> int.  With the stream already failed, or with unread text
\* left behind by the previous extraction, the extraction fails without
\* looking at the next token.  Otherwise it takes the longest integer
\* prefix of the token: "3abc" yields 3 and leaves "abc" in the stream.
Extract(good, residue, tok) ==
    IF ~good \/ residue
    THEN [ok |-> FALSE, val |-> 0, residue |-> residue, seen |-> <<>>]
    ELSE IF tok.kind \in {"int", "intjunk"}
    THEN [ok |-> TRUE, val |-> tok.val, residue |-> (tok.kind = "intjunk"),
          seen |-> <<tok>>]
    ELSE [ok |-> FALSE, val |-> 0, residue |-> FALSE, seen |-> <<tok>>]

\* ------------------------------------------------------------------------
\* PCB and the pure helpers of the scheduler
\* ------------------------------------------------------------------------
PCB(process_id, work_units) ==
    [pid |-> process_id, state |-> "Ready", pc |-> 0,
     total_work |-> work_units]

Min(a, b) == IF a < b THEN a ELSE b

\* std::sort of a copy of pcbs with the comparator a.pid < b.pid
RECURSIVE InsertByPid(_, _)
InsertByPid(p, s) ==
    IF s = <<>> THEN <<p>>
    ELSE IF p.pid < Head(s).pid THEN <<p>> \o s
    ELSE <<Head(s)>> \o InsertByPid(p, Tail(s))

\* Variant: the copy is printed in collection order, without the sort
SortByPid_None(s) == s

RECURSIVE SortByPid(_)
SortByPid(s) ==
    IF s = <<>> THEN <<>>
    ELSE InsertByPid(Head(s), SortByPid(Tail(s)))

\* One block of output: the header's tick number and one line per process
printProcessStates(ps, timeSlice) ==
    LET sorted_pcbs == SortByPid(ps)
    IN  [tick |-> timeSlice,
         lines |-> [k \in 1 .. Len(sorted_pcbs) |->
                       [pid |-> sorted_pcbs[k].pid,
                        state |-> sorted_pcbs[k].state,
                        pc |-> sorted_pcbs[k].pc]]]

allProcessesTerminated(ps) ==
    \A k \in 1 .. Len(ps) : ps[k].state = "Terminated"

\* Variant: the full quantum is always charged
workDone_NoMin(p, quantum) == quantum

\* Variant: the process runs to completion in one slice
workDone_All(p, quantum) == p.total_work - p.pc

\* Variant: one work unit per slice
workDone_One(p, quantum) == Min(1, p.total_work - p.pc)

\* int workDone = std::min(timeQuantum, total_work - pc)
workDone(p, quantum) == Min(quantum, p.total_work - p.pc)

\* Variant: completion tested with > instead of >=
RunSlice_Strict(p, quantum) ==
    LET newpc == p.pc + Min(quantum, p.total_work - p.pc)
    IN  [p EXCEPT !.pc = newpc,
                  !.state = IF newpc > p.total_work
                            THEN "Terminated" ELSE "Running"]

\* Variant: an unfinished process is put back to Ready before the trace
RunSlice_Ready(p, quantum) ==
    LET newpc == p.pc + Min(quantum, p.total_work - p.pc)
    IN  [p EXCEPT !.pc = newpc,
                  !.state = IF newpc >= p.total_work
                            THEN "Terminated" ELSE "Ready"]

\* Lines 64-77: the dispatched record as it stands when the trace is printed
RunSlice(p, quantum) ==
    LET newpc == p.pc + workDone(p, quantum)
    IN  [p EXCEPT !.pc = newpc,
                  !.state = IF newpc >= p.total_work
                            THEN "Terminated" ELSE "Running"]

\* Line 119: pids.count(pid) > 0
IsDuplicate(seen, pid) == pid \in seen

\* Variant: only the most recent pid is remembered
InsertPid_Last(seen, pid) == {pid}

\* Line 125: pids.insert(pid)
InsertPid(seen, pid) == seen \cup {pid}

\* Variant: the new element goes to the head
Enqueue_Front(q, i) == <<i>> \o q

\* readyQueue.push(i): the new element goes to the tail
Enqueue(q, i) == Append(q, i)

\* Variant: the head is read but not removed
Pop_None(q) == q

\* Line 59: readyQueue.pop()
Pop(q) == Tail(q)

\* Variant: the dispatched process always goes back in the queue
Unfinished_Always(p) == TRUE

\* Line 83: currentProcess.pc < currentProcess.total_work
Unfinished(p) == p.pc < p.total_work

\* Lines 45-48: the indices of pcbs pushed in input order
RECURSIVE InitQueue(_)
InitQueue(n) == IF n = 0 THEN <<>> ELSE Enqueue(InitQueue(n - 1), n)

\* Variant: the state is left as it was traced
Revert_None(p) == p

\* Line 84: currentProcess.state = "Ready"
Revert(p) == [p EXCEPT !.state = "Ready"]

\* Line 115: work <= 0
InvalidWork(work) == work <= 0

\* Line 102: numProcesses <= 0
InvalidCount(n) == n <= 0

\* ------------------------------------------------------------------------
\* State
\* ------------------------------------------------------------------------
VARIABLES
    phase,                \* position of main / kernelSimulator
    good,                 \* std::cin has not failed
    residue,              \* unread text of the last token is still in cin
    numProcesses,
    pcbs,
    pids,
    readyQueue,
    currentTime,
    currentProcessIndex,  \* 0 when no process is dispatched
    out,                  \* std::cout: the trace blocks printed so far
    closing,              \* "All processes completed." has been printed
    diag,                 \* std::cerr
    exitStatus,           \* -1 while main is running
    input,                \* the tokens the extractions have looked at
    dispatched            \* the index dispatched at each tick (0: none)

vars == <<phase, good, residue, numProcesses, pcbs, pids, readyQueue,
          currentTime, currentProcessIndex, out, closing, diag, exitStatus,
          input, dispatched>>

simVars == <<readyQueue, currentTime, currentProcessIndex, out, closing,
             dispatched>>

Init ==
    /\ phase = "readCount"
    /\ good = TRUE
    /\ residue = FALSE
    /\ numProcesses = 0
    /\ pcbs = <<>>
    /\ pids = {}
    /\ readyQueue = <<>>
    /\ currentTime = 0
    /\ currentProcessIndex = 0
    /\ out = <<>>
    /\ closing = FALSE
    /\ diag = ""
    /\ exitStatus = -1
    /\ input = <<>>
    /\ dispatched = <<>>

\* return 1 after writing a diagnostic to std::cerr
Reject(msg) ==
    /\ phase' = "rejected"
    /\ diag' = msg
    /\ exitStatus' = 1

\* Lines 97-105
ReadCount ==
    /\ phase = "readCount"
    /\ \E tok \in CountTokens :
        LET e == Extract(good, residue, tok)
        IN  /\ input' = input \o e.seen
            /\ good' = e.ok
            /\ residue' = e.residue
            /\ IF ~e.ok
               THEN /\ Reject("Error: Invalid input for number of processes")
                    /\ UNCHANGED numProcesses
               ELSE IF InvalidCount(e.val)
               THEN /\ Reject("Error: Invalid number of processes")
                    /\ numProcesses' = e.val
               ELSE /\ phase' = "readEntry"
                    /\ numProcesses' = e.val
                    /\ UNCHANGED <<diag, exitStatus>>
    /\ UNCHANGED <<pcbs, pids>>
    /\ UNCHANGED simVars

\* Lines 109-129: one iteration of the ingestion loop
ReadEntry ==
    /\ phase = "readEntry"
    /\ Len(pcbs) < numProcesses
    /\ \E t1 \in PidTokens, t2 \in WorkTokens :
        LET e1 == Extract(good, residue, t1)
            e2 == Extract(e1.ok, e1.residue, t2)
            pid == e1.val
            work == e2.val
        IN  /\ input' = input \o e1.seen \o e2.seen
            /\ good' = (e1.ok /\ e2.ok)
            /\ residue' = e2.residue
            /\ IF ~(e1.ok /\ e2.ok)
               THEN /\ Reject("Error: Invalid input format for process data")
                    /\ UNCHANGED <<pcbs, pids>>
               ELSE IF InvalidWork(work)
               THEN /\ Reject("Error: Invalid work units")
                    /\ UNCHANGED <<pcbs, pids>>
               ELSE IF IsDuplicate(pids, pid)
               THEN /\ Reject("Error: Duplicate PID detected")
                    /\ UNCHANGED <<pcbs, pids>>
               ELSE /\ pids' = InsertPid(pids, pid)
                    /\ pcbs' = Append(pcbs, PCB(pid, work))
                    /\ UNCHANGED <<phase, diag, exitStatus>>
    /\ UNCHANGED numProcesses
    /\ UNCHANGED simVars

\* Lines 131-132 and 45-50: kernelSimulator is entered and fills the queue
kernelSimulator ==
    /\ phase = "readEntry"
    /\ Len(pcbs) = numProcesses
    /\ phase' = "loop"
    /\ readyQueue' = InitQueue(Len(pcbs))
    /\ currentTime' = 0
    /\ UNCHANGED <<good, residue, numProcesses, pcbs, pids,
                   currentProcessIndex, out, closing, diag, exitStatus,
                   input, dispatched>>

\* Lines 53-77 (and 87-89): the loop condition holds, the tick counter is
\* advanced, and the head of the queue, if any, runs for one slice.
Dispatch ==
    /\ phase = "loop"
    /\ ~allProcessesTerminated(pcbs)
    /\ currentTime < MaxTick
    /\ currentTime' = currentTime + 1
    /\ IF readyQueue # <<>>
       THEN LET idx == Head(readyQueue)
            IN  /\ readyQueue' = Pop(readyQueue)
                /\ currentProcessIndex' = idx
                /\ pcbs' = [pcbs EXCEPT ![idx] = RunSlice(pcbs[idx], timeQuantum)]
                /\ dispatched' = Append(dispatched, idx)
       ELSE /\ currentProcessIndex' = 0
            /\ dispatched' = Append(dispatched, 0)
            /\ UNCHANGED <<readyQueue, pcbs>>
    /\ phase' = "trace"
    /\ UNCHANGED <<good, residue, numProcesses, pids, out, closing, diag,
                   exitStatus, input>>

\* Lines 80 and 90: the trace block of this tick
EmitTrace ==
    /\ phase = "trace"
    /\ out' = Append(out, printProcessStates(pcbs, currentTime))
    /\ phase' = "requeue"
    /\ UNCHANGED <<good, residue, numProcesses, pcbs, pids, readyQueue,
                   currentTime, currentProcessIndex, closing, diag,
                   exitStatus, input, dispatched>>

\* Lines 82-86: back to Ready and to the tail of the queue when work remains
Requeue ==
    /\ phase = "requeue"
    /\ IF currentProcessIndex # 0 /\ Unfinished(pcbs[currentProcessIndex])
       THEN /\ pcbs' = [pcbs EXCEPT ![currentProcessIndex] =
                                        Revert(pcbs[currentProcessIndex])]
            /\ readyQueue' = Enqueue(readyQueue, currentProcessIndex)
       ELSE UNCHANGED <<pcbs, readyQueue>>
    /\ currentProcessIndex' = 0
    /\ phase' = "loop"
    /\ UNCHANGED <<good, residue, numProcesses, pids, currentTime, out,
                   closing, diag, exitStatus, input, dispatched>>

\* Lines 53 and 134-135: the loop ends, the closing line, return 0
Finish ==
    /\ phase = "loop"
    /\ allProcessesTerminated(pcbs)
    /\ closing' = TRUE
    /\ exitStatus' = 0
    /\ phase' = "done"
    /\ UNCHANGED <<good, residue, numProcesses, pcbs, pids, readyQueue,
                   currentTime, currentProcessIndex, out, diag, input,
                   dispatched>>

Next ==
    \/ ReadCount
    \/ ReadEntry
    \/ kernelSimulator
    \/ Dispatch
    \/ EmitTrace
    \/ Requeue
    \/ Finish

Spec == Init /\ [][Next]_vars

\* ------------------------------------------------------------------------
\* The scheduler on valid input.  Lines 97-129 on an input that passes every
\* check, taken as one step: a count n, then n entries with distinct pids
\* (here in descending order) and positive work amounts.
\* ------------------------------------------------------------------------
LongWorkAmounts == (1 .. MaxWork) \cup {MaxLongWork}

IngestValid ==
    /\ phase = "readCount"
    /\ \E n \in 1 .. MaxN : \E w \in [1 .. n -> LongWorkAmounts] :
        /\ numProcesses' = n
        /\ pcbs' = [i \in 1 .. n |-> PCB(n + 1 - i, w[i])]
        /\ pids' = 1 .. n
        /\ input' = [k \in 1 .. (2 * n + 1) |->
                        IF k = 1 THEN IntTok(n)
                        ELSE IF k % 2 = 0 THEN IntTok(n + 1 - (k \div 2))
                        ELSE IntTok(w[(k - 1) \div 2])]
    /\ phase' = "readEntry"
    /\ UNCHANGED <<good, residue, diag, exitStatus>>
    /\ UNCHANGED simVars

SimNext ==
    \/ IngestValid
    \/ kernelSimulator
    \/ Dispatch
    \/ EmitTrace
    \/ Requeue
    \/ Finish

\* main is straight-line, single-threaded code: a step that can be taken
\* is taken.
FairSpec == Init /\ [][SimNext]_vars /\ WF_vars(SimNext)

TypeOK ==
    /\ phase \in {"readCount", "readEntry", "loop", "trace", "requeue",
                  "done", "rejected"}
    /\ exitStatus \in {-1, 0, 1}
    /\ currentTime \in 0 .. MaxTick
    /\ Len(dispatched) = currentTime

\* ------------------------------------------------------------------------
\* Vocabulary of the properties
\* ------------------------------------------------------------------------
Procs == 1 .. Len(pcbs)

Simulating == phase \in {"loop", "trace", "requeue", "done"}

CeilDiv(w, q) == (w + q - 1) \div q

\* Number of ticks in which process i was dispatched
TicksOf(i) == Cardinality({k \in 1 .. Len(dispatched) : dispatched[k] = i})

\* The line of trace block b that reports the process with this pid
LineOf(b, pid) ==
    LET k == CHOOSE j \in 1 .. Len(b.lines) : b.lines[j].pid = pid
    IN  b.lines[k]

\* The line for process i in the trace of tick k; before the first tick
\* every record is as constructed
TracedAt(k, i) ==
    IF k = 0 THEN [pid |-> pcbs[i].pid, state |-> "Ready", pc |-> 0]
    ELSE LineOf(out[k], pcbs[i].pid)

\* ------------------------------------------------------------------------
\* C1  Termination: once the scheduler loop is entered it eventually halts,
\*     and when it has halted every record is Terminated with pc equal to
\*     total_work.
\* ------------------------------------------------------------------------
Termination ==
    /\ (phase = "loop") ~> (phase = "done")
    /\ [](phase = "done" =>
            \A i \in Procs : /\ pcbs[i].state = "Terminated"
                             /\ pcbs[i].pc = pcbs[i].total_work)

TerminationWitness ==
    /\ phase = "done"
    /\ Len(pcbs) = 3
    /\ \E i \in Procs : pcbs[i].total_work = 5
    /\ \E i \in Procs : pcbs[i].total_work = 1
    /\ Len(out) >= 5
    /\ closing

\* ------------------------------------------------------------------------
\* C3  At every loop-iteration boundary and in every emitted trace block, a
\*     record is Terminated if and only if its pc equals its total_work.
\* ------------------------------------------------------------------------
TerminatedIffDone ==
    /\ phase \in {"loop", "requeue", "done"} =>
          \A i \in Procs :
              (pcbs[i].state = "Terminated") <=> (pcbs[i].pc = pcbs[i].total_work)
    /\ \A k \in 1 .. Len(out) : \A i \in Procs :
          (TracedAt(k, i).state = "Terminated")
              <=> (TracedAt(k, i).pc = pcbs[i].total_work)

TerminatedIffDoneWitness ==
    /\ phase = "requeue"
    /\ Len(out) >= 3
    /\ \E i, j \in Procs :
          /\ pcbs[i].state = "Terminated"
          /\ pcbs[j].state = "Running"
          /\ pcbs[j].pc > 0

\* ------------------------------------------------------------------------
\* C4  Tick-count law: over a complete run every process with total_work w
\*     has been dispatched in exactly ceil(w / 2) ticks.
\* ------------------------------------------------------------------------
TickCountLaw ==
    phase = "done" =>
        \A i \in Procs : TicksOf(i) = CeilDiv(pcbs[i].total_work, 2)

TickCountLawWitness ==
    /\ phase = "done"
    /\ \E i, j \in Procs :
          /\ pcbs[i].total_work = 5 /\ TicksOf(i) = 3
          /\ pcbs[j].total_work = 2 /\ TicksOf(j) = 1
          /\ i < j

\* ------------------------------------------------------------------------
\* C2  Single dispatch per tick, as stated: in the trace of every tick after
\*     the first, every record other than the dispatched one has the state
\*     and the pc it had in the trace of the tick before.
\* ------------------------------------------------------------------------
OthersUnchangedBetweenTraces ==
    \A k \in 2 .. Len(out) : \A i \in Procs :
        i # dispatched[k] => TracedAt(k, i) = TracedAt(k - 1, i)

\* C2 as amended: in every tick exactly one record is modified, the
\*     dispatched one, which is traced Running or Terminated; every other
\*     record is traced with the pc of the tick before, and with the state of
\*     the tick before except that the record traced Running in the tick
\*     before is now traced Ready.
SingleDispatchPerTick ==
    /\ [](\A k \in 1 .. Len(out) :
            /\ dispatched[k] \in Procs
            /\ TracedAt(k, dispatched[k]).state \in {"Running", "Terminated"}
            /\ \A i \in Procs \ {dispatched[k]} :
                  /\ TracedAt(k, i).pc = TracedAt(k - 1, i).pc
                  /\ TracedAt(k, i).state =
                        IF TracedAt(k - 1, i).state = "Running"
                        THEN "Ready" ELSE TracedAt(k - 1, i).state)
    /\ [][(phase = "loop" /\ phase' = "trace") =>
            Cardinality({i \in Procs : pcbs'[i] # pcbs[i]}) = 1]_vars

SingleDispatchPerTickWitness ==
    /\ Len(out) >= 2
    /\ \E i \in Procs :
          /\ i # dispatched[2]
          /\ TracedAt(1, i).state = "Running"
          /\ TracedAt(2, i).state = "Ready"

\* ------------------------------------------------------------------------
\* C5  In the trace of each tick the dispatched process is shown Terminated
\*     when its pc reached total_work in this tick and Running otherwise;
\*     while the trace is being emitted it is neither Ready nor in the ready
\*     queue, and once the tick is over an unfinished one is Ready at the
\*     tail of the queue.
\* ------------------------------------------------------------------------
TracedBeforeRequeue ==
    /\ \A k \in 1 .. Len(out) :
          dispatched[k] \in Procs /\
          LET l == TracedAt(k, dispatched[k])
          IN  l.state = IF l.pc = pcbs[dispatched[k]].total_work
                        THEN "Terminated" ELSE "Running"
    /\ phase \in {"trace", "requeue"} =>
          /\ currentProcessIndex \in Procs
          /\ pcbs[currentProcessIndex].state # "Ready"
          /\ \A j \in 1 .. Len(readyQueue) : readyQueue[j] # currentProcessIndex
    /\ phase = "requeue" =>
          TracedAt(Len(out), currentProcessIndex).state
              = pcbs[currentProcessIndex].state
    /\ (phase = "loop" /\ currentTime > 0) =>
          LET i == dispatched[currentTime]
          IN  pcbs[i].pc < pcbs[i].total_work =>
                  /\ pcbs[i].state = "Ready"
                  /\ readyQueue # <<>>
                  /\ readyQueue[Len(readyQueue)] = i

TracedBeforeRequeueWitness ==
    /\ phase = "loop"
    /\ Len(out) >= 2
    /\ TracedAt(1, dispatched[1]).state = "Running"
    /\ pcbs[dispatched[1]].state = "Ready"
    /\ TracedAt(2, dispatched[2]).state = "Terminated"
    /\ readyQueue # <<>>
    /\ readyQueue[Len(readyQueue)] = dispatched[1]

\* ------------------------------------------------------------------------
\* C6  Dispatch is strictly FIFO.  The k-th dispatch, for k up to N, is the
\*     k-th process of the input; at every tick the dispatched process is
\*     the head of the queue, which is, among the unfinished processes, the
\*     one whose last enqueue is oldest; an unfinished process goes to the
\*     tail after its tick.
\* ------------------------------------------------------------------------
\* When process i was last put in the queue before tick k: the tick of its
\* previous dispatch, or its place in the input for the initial fill
LastEnqueue(i, k) ==
    LET prev == {j \in 1 .. (k - 1) : dispatched[j] = i}
    IN  IF prev = {} THEN i - Len(pcbs) - 1
        ELSE CHOOSE j \in prev : \A m \in prev : m <= j

UnfinishedBefore(i, k) == TracedAt(k - 1, i).state # "Terminated"

StrictFIFO ==
    /\ [](\A k \in 1 .. Len(dispatched) :
            /\ dispatched[k] \in Procs
            /\ k <= Len(pcbs) => dispatched[k] = k
            /\ UnfinishedBefore(dispatched[k], k)
            /\ \A i \in Procs :
                  UnfinishedBefore(i, k) =>
                      LastEnqueue(dispatched[k], k) <= LastEnqueue(i, k))
    /\ [][(phase = "loop" /\ phase' = "trace") =>
            /\ readyQueue # <<>>
            /\ currentProcessIndex' = Head(readyQueue)
            /\ readyQueue' = Tail(readyQueue)]_vars
    /\ [][(phase = "requeue" /\ phase' = "loop"
             /\ pcbs[currentProcessIndex].state # "Terminated") =>
            readyQueue' = readyQueue \o <<currentProcessIndex>>]_vars

\* pids in descending order and the most work first: neither decides
StrictFIFOWitness ==
    /\ phase = "done"
    /\ Len(pcbs) = 3
    /\ pcbs[1].pid > pcbs[2].pid /\ pcbs[2].pid > pcbs[3].pid
    /\ pcbs[1].total_work = 3 /\ pcbs[2].total_work = 1
    /\ pcbs[3].total_work = 3
    /\ dispatched = <<1, 2, 3, 1, 3>>

\* ------------------------------------------------------------------------
\* C7  Every trace block lists all N processes exactly once in ascending
\*     pid order, and emitting it changes neither the order of the process
\*     collection nor the ready queue.
\* ------------------------------------------------------------------------
DisplayOrdering ==
    /\ [](\A k \in 1 .. Len(out) :
            LET ls == out[k].lines
            IN  /\ Len(ls) = Len(pcbs)
                /\ \A a, b \in 1 .. Len(ls) : a < b => ls[a].pid < ls[b].pid
                /\ {ls[a].pid : a \in 1 .. Len(ls)}
                      = {pcbs[i].pid : i \in Procs}
                /\ out[k].tick = k)
    /\ [][(phase = "trace") =>
            /\ pcbs' = pcbs
            /\ readyQueue' = readyQueue
            /\ Len(out') = Len(out) + 1]_vars

DisplayOrderingWitness ==
    /\ phase = "requeue"
    /\ Len(pcbs) = 3
    /\ pcbs[1].pid = 3 /\ pcbs[2].pid = 1 /\ pcbs[3].pid = 2
    /\ Len(out) = 2
    /\ out[2].lines[1].pid = 1 /\ out[2].lines[3].pid = 3
    /\ dispatched = <<1, 2>>

\* ------------------------------------------------------------------------
\* C8  Single-slice completion: a process whose total_work is 1 or 2 is
\*     dispatched exactly once in the run, the trace of that tick shows it
\*     Terminated with pc equal to total_work, and it is never put back in
\*     the queue.
\* ------------------------------------------------------------------------
SingleSliceCompletion ==
    Simulating =>
        \A i \in Procs :
            pcbs[i].total_work <= timeQuantum =>
                /\ TicksOf(i) <= 1
                /\ phase = "done" => TicksOf(i) = 1
                /\ \A k \in 1 .. Len(out) :
                      dispatched[k] = i =>
                          /\ TracedAt(k, i).state = "Terminated"
                          /\ TracedAt(k, i).pc = pcbs[i].total_work
                /\ TicksOf(i) = 1 =>
                      \A j \in 1 .. Len(readyQueue) : readyQueue[j] # i

SingleSliceCompletionWitness ==
    /\ phase = "done"
    /\ \E i, j, m \in Procs :
          /\ pcbs[i].total_work = 2 /\ TicksOf(i) = 1
          /\ pcbs[j].total_work = 1 /\ TicksOf(j) = 1
          /\ pcbs[m].total_work = 3 /\ TicksOf(m) = 2

\* ------------------------------------------------------------------------
\* The input as the extractions saw it: input[1] is the count token, and
\* entry a has its pid token at 2a and its work token at 2a + 1.
\* ------------------------------------------------------------------------
Numeric(t) == t.kind \in {"int", "intjunk"}

Malformed(t) == t.kind # "int"

IsPidPos(k) == k >= 2 /\ k % 2 = 0

IsWorkPos(k) == k >= 3 /\ k % 2 = 1

RepeatsEarlierPid(k) ==
    /\ IsPidPos(k)
    /\ Numeric(input[k])
    /\ \E a \in 2 .. (k - 1) :
          /\ IsPidPos(a)
          /\ Numeric(input[a])
          /\ input[a].val = input[k].val

NoSimulation ==
    /\ phase = "rejected"
    /\ exitStatus = 1
    /\ out = <<>>
    /\ dispatched = <<>>
    /\ currentTime = 0
    /\ ~closing

\* ------------------------------------------------------------------------
\* C9  An input in which two entries carry the same pid is rejected with
\*     exit status 1 and without any simulation, whatever the work values
\*     and wherever the repeat occurs.
\* ------------------------------------------------------------------------
DuplicateRejected ==
    (\E k \in 1 .. Len(input) : RepeatsEarlierPid(k)) => NoSimulation

DuplicateRejectedWitness ==
    /\ phase = "rejected"
    /\ diag = "Error: Duplicate PID detected"
    /\ Len(input) = 7
    /\ \A k \in 1 .. 7 : input[k].kind = "int"
    /\ input[6].val = input[2].val
    /\ input[4].val # input[2].val
    /\ input[7].val # input[3].val

\* ------------------------------------------------------------------------
\* C10 Fail-fast validation: a malformed token, a count <= 0, a work <= 0
\*     or a repeated pid stops ingestion at that item with exit status 1,
\*     no scheduler loop, no trace block and no closing line; exit status 0
\*     and the closing line come only after a completed simulation.
\* ------------------------------------------------------------------------
OffendingAt(k) ==
    \/ Malformed(input[k])
    \/ k = 1 /\ input[k].val <= 0
    \/ IsWorkPos(k) /\ input[k].val <= 0
    \/ RepeatsEarlierPid(k)

FailFast ==
    /\ (\E k \in 1 .. Len(input) : OffendingAt(k)) =>
          /\ ~Simulating
          /\ exitStatus # 0
          /\ out = <<>>
          /\ ~closing
    /\ phase = "rejected" =>
          /\ NoSimulation
          /\ \E k \in 1 .. Len(input) : OffendingAt(k)
          /\ \A k \in 1 .. Len(input) :
                OffendingAt(k) => k >= Len(input) - 1
    /\ exitStatus = 0 =>
          /\ phase = "done"
          /\ closing
          /\ allProcessesTerminated(pcbs)
          /\ Len(out) = currentTime
    /\ closing => exitStatus = 0

\* ------------------------------------------------------------------------
\* C11 Scenario A: on the input N = 2, (pid 1, work 3), (pid 2, work 2) the
\*     run has exactly three ticks, traced as
\*       1: pid 1 Running at pc 2,    pid 2 Ready at pc 0
\*       2: pid 1 Ready at pc 2,      pid 2 Terminated at pc 2
\*       3: pid 1 Terminated at pc 3, pid 2 Terminated at pc 2
\*     and then the loop ends.
\* ------------------------------------------------------------------------
Line(pid, state, pc) == [pid |-> pid, state |-> state, pc |-> pc]

ScenarioATrace ==
    << [tick |-> 1, lines |-> <<Line(1, "Running", 2), Line(2, "Ready", 0)>>],
       [tick |-> 2, lines |-> <<Line(1, "Ready", 2), Line(2, "Terminated", 2)>>],
       [tick |-> 3, lines |-> <<Line(1, "Terminated", 3),
                                Line(2, "Terminated", 2)>>] >>

IsScenarioA ==
    /\ Simulating
    /\ input = <<IntTok(2), IntTok(1), IntTok(3), IntTok(2), IntTok(2)>>

ScenarioA ==
    IsScenarioA =>
        /\ Len(out) <= 3
        /\ out = SubSeq(ScenarioATrace, 1, Len(out))
        /\ currentTime <= 3
        /\ phase = "done" => out = ScenarioATrace /\ currentTime = 3
        /\ (phase = "loop" /\ Len(out) = 3) => allProcessesTerminated(pcbs)
        /\ (phase = "loop" /\ Len(out) < 3) => ~allProcessesTerminated(pcbs)

ScenarioAWitness ==
    /\ IsScenarioA
    /\ phase = "done"
    /\ Len(out) = 3

\* ------------------------------------------------------------------------
\* Steps of the scheduler loop, for the properties about what a tick changes
\* ------------------------------------------------------------------------
DispatchStep == phase = "loop" /\ phase' = "trace"

TraceStep == phase = "trace" /\ phase' = "requeue"

RequeueStep == phase = "requeue" /\ phase' = "loop"

InQueue(q, i) == \E j \in 1 .. Len(q) : q[j] = i

\* ------------------------------------------------------------------------
\* C13 In every tick exactly one process is dispatched; its pc increases by
\*     exactly min(2, total_work - pc), which is at least 1, and during the
\*     tick the pc and the state of every other record are left unchanged.
\* ------------------------------------------------------------------------
OneSlicePerTick ==
    /\ [][DispatchStep =>
            /\ currentProcessIndex' \in Procs
            /\ dispatched' = Append(dispatched, currentProcessIndex')
            /\ LET i == currentProcessIndex'
                   left == pcbs[i].total_work - pcbs[i].pc
               IN  /\ left >= 1
                   /\ pcbs'[i].pc - pcbs[i].pc = IF left < 2 THEN left ELSE 2
                   /\ pcbs'[i].pc - pcbs[i].pc >= 1
                   /\ \A j \in Procs \ {i} : pcbs'[j] = pcbs[j]]_vars
    /\ [][(TraceStep \/ RequeueStep) =>
            /\ currentProcessIndex \in Procs
            /\ Len(dispatched') = Len(dispatched)
            /\ \A j \in Procs :
                  /\ pcbs'[j].pc = pcbs[j].pc
                  /\ j # currentProcessIndex => pcbs'[j] = pcbs[j]]_vars

\* A tick that had only one work unit left to run, and one that ran two
OneSlicePerTickWitness ==
    /\ phase = "loop"
    /\ Len(pcbs) = 3
    /\ currentTime >= 3
    /\ \E i, j \in Procs :
          /\ i # j
          /\ pcbs[i].total_work = 3 /\ pcbs[i].pc = 3
          /\ dispatched[currentTime] = i
          /\ pcbs[j].total_work = 3 /\ pcbs[j].pc = 2

\* ------------------------------------------------------------------------
\* C14 At most one record is Running: in every emitted trace block, and
\*     while it is emitted, no record other than the one dispatched in that
\*     tick is Running; at every loop-iteration boundary none is.
\* ------------------------------------------------------------------------
AtMostOneRunning ==
    /\ phase \in {"loop", "done"} =>
          \A i \in Procs : pcbs[i].state # "Running"
    /\ phase \in {"trace", "requeue"} =>
          \A i \in Procs \ {currentProcessIndex} : pcbs[i].state # "Running"
    /\ \A k \in 1 .. Len(out) :
          \A i \in Procs \ {dispatched[k]} : TracedAt(k, i).state # "Running"

AtMostOneRunningWitness ==
    /\ phase = "loop"
    /\ Len(out) >= 2
    /\ TracedAt(1, dispatched[1]).state = "Running"
    /\ TracedAt(2, dispatched[2]).state = "Running"
    /\ dispatched[1] # dispatched[2]

\* ------------------------------------------------------------------------
\* C15 Terminated is absorbing: once a record is Terminated its state and
\*     pc never change, it is not in the ready queue, it is not dispatched
\*     again, and every later trace block still lists it.
\* ------------------------------------------------------------------------
TerminatedAbsorbing ==
    [][\A i \in Procs :
          pcbs[i].state = "Terminated" =>
              /\ pcbs'[i] = pcbs[i]
              /\ ~InQueue(readyQueue, i) /\ ~InQueue(readyQueue', i)
              /\ Len(dispatched') > Len(dispatched) =>
                    dispatched'[Len(dispatched')] # i
              /\ Len(out') > Len(out) =>
                    \E l \in 1 .. Len(out'[Len(out')].lines) :
                        out'[Len(out')].lines[l] =
                            [pid |-> pcbs[i].pid, state |-> "Terminated",
                             pc |-> pcbs[i].total_work]]_vars

\* A record that terminated in the first tick, two ticks later
TerminatedAbsorbingWitness ==
    /\ phase = "requeue"
    /\ Len(out) = 3
    /\ TracedAt(1, dispatched[1]).state = "Terminated"
    /\ TracedAt(3, dispatched[1]).state = "Terminated"
    /\ pcbs[dispatched[3]].state = "Running"

\* ------------------------------------------------------------------------
\* C16 Every record has 0 <= pc <= total_work; pc never decreases from one
\*     step to the next; pid and total_work never change after creation.
\* ------------------------------------------------------------------------
ProgressBounded ==
    /\ [](\A i \in Procs :
            /\ 0 <= pcbs[i].pc
            /\ pcbs[i].pc <= pcbs[i].total_work
            /\ pcbs[i].total_work > 0)
    /\ [][/\ Len(pcbs') >= Len(pcbs)
          /\ \A i \in Procs :
                /\ pcbs'[i].pc >= pcbs[i].pc
                /\ pcbs'[i].pid = pcbs[i].pid
                /\ pcbs'[i].total_work = pcbs[i].total_work]_vars

ProgressBoundedWitness ==
    /\ phase = "done"
    /\ \E i, j \in Procs :
          /\ pcbs[i].total_work = 3 /\ pcbs[i].pc = 3
          /\ pcbs[j].total_work = 1 /\ pcbs[j].pc = 1
          /\ pcbs[i].pid > pcbs[j].pid /\ i < j

\* ------------------------------------------------------------------------
\* C17 The ready queue never holds a process twice; the dispatched process
\*     is absent from it from its dequeue until its trace has been emitted,
\*     and is put back at most once per tick.
\* ------------------------------------------------------------------------
QueueHoldsEachOnce ==
    /\ [](/\ \A a, b \in 1 .. Len(readyQueue) :
                a # b => readyQueue[a] # readyQueue[b]
          /\ \A a \in 1 .. Len(readyQueue) : readyQueue[a] \in Procs
          /\ phase \in {"trace", "requeue"} =>
                /\ currentProcessIndex \in Procs
                /\ ~InQueue(readyQueue, currentProcessIndex))
    /\ [][/\ DispatchStep => ~InQueue(readyQueue', currentProcessIndex')
          /\ TraceStep => readyQueue' = readyQueue
          /\ RequeueStep =>
                \/ readyQueue' = readyQueue
                \/ readyQueue' = readyQueue \o <<currentProcessIndex>>]_vars

QueueHoldsEachOnceWitness ==
    /\ phase = "requeue"
    /\ currentTime = 4
    /\ Len(readyQueue) = 2
    /\ dispatched[1] = currentProcessIndex
    /\ pcbs[currentProcessIndex].state = "Terminated"

\* ------------------------------------------------------------------------
\* C18 The empty-queue branch is never taken: whenever the completion check
\*     finds a record that is not Terminated the ready queue is non-empty,
\*     so every traced tick has a dispatched process.
\* ------------------------------------------------------------------------
EmptyBranchUnreachable ==
    /\ (phase = "loop" /\ ~allProcessesTerminated(pcbs)) => readyQueue # <<>>
    /\ \A k \in 1 .. Len(dispatched) : dispatched[k] # 0
    /\ phase \in {"trace", "requeue"} => currentProcessIndex # 0

\* The last unfinished process is alone in the queue
EmptyBranchUnreachableWitness ==
    /\ phase = "loop"
    /\ Len(pcbs) = 3
    /\ Len(readyQueue) = 1
    /\ Cardinality({i \in Procs : pcbs[i].state = "Terminated"}) = 2
    /\ pcbs[readyQueue[1]].pc = 2

\* ------------------------------------------------------------------------
\* C19 At every loop-iteration boundary the ready queue holds exactly the
\*     records that are not Terminated, each once and each Ready, so its
\*     length is the number of unfinished processes.
\* ------------------------------------------------------------------------
QueueIsUnfinishedSet ==
    phase = "loop" =>
        /\ {readyQueue[a] : a \in 1 .. Len(readyQueue)}
              = {i \in Procs : pcbs[i].state # "Terminated"}
        /\ Len(readyQueue)
              = Cardinality({i \in Procs : pcbs[i].state # "Terminated"})
        /\ \A a \in 1 .. Len(readyQueue) : pcbs[readyQueue[a]].state = "Ready"
        /\ Len(readyQueue)
              = Cardinality({i \in Procs : pcbs[i].pc < pcbs[i].total_work})

QueueIsUnfinishedSetWitness ==
    /\ phase = "loop"
    /\ Len(pcbs) = 3
    /\ currentTime = 2
    /\ Len(readyQueue) = 2
    /\ readyQueue = <<3, 1>>
    /\ pcbs[2].state = "Terminated"

\* ------------------------------------------------------------------------
\* C20 Round-robin bounded waiting and run length.  Between two consecutive
\*     dispatches of a process every other process that is still unfinished
\*     is dispatched exactly once and no finished one is, so a process waits
\*     at most N - 1 ticks; every tick emits one trace block, the blocks are
\*     numbered 1, 2, ..., and a complete run has the sum over the processes
\*     of ceil(total_work / 2) ticks.
\* ------------------------------------------------------------------------
TicksBetween(j, a, b) ==
    Cardinality({k \in (a + 1) .. (b - 1) : dispatched[k] = j})

\* Ticks a and b are consecutive dispatches of the same process
ConsecutiveDispatches(a, b) ==
    /\ a < b
    /\ dispatched[a] = dispatched[b]
    /\ \A k \in (a + 1) .. (b - 1) : dispatched[k] # dispatched[a]

RECURSIVE SumCeil(_)
SumCeil(k) ==
    IF k = 0 THEN 0
    ELSE SumCeil(k - 1) + CeilDiv(pcbs[k].total_work, 2)

RoundRobin ==
    Simulating =>
        /\ \A a, b \in 1 .. Len(dispatched) :
              ConsecutiveDispatches(a, b) =>
                  /\ b - a - 1 <= Len(pcbs) - 1
                  /\ \A j \in Procs \ {dispatched[a]} :
                        TicksBetween(j, a, b) =
                            IF TracedAt(a, j).state # "Terminated"
                            THEN 1 ELSE 0
        /\ \A i \in Procs : \A b \in 1 .. Len(dispatched) :
              (dispatched[b] = i /\ \A k \in 1 .. (b - 1) : dispatched[k] # i)
                  => b = i
        /\ \A k \in 1 .. Len(out) : out[k].tick = k
        /\ Len(out) = IF phase = "trace" THEN currentTime - 1 ELSE currentTime
        /\ Len(dispatched) = currentTime
        /\ currentTime <= SumCeil(Len(pcbs))
        /\ phase = "done" =>
              /\ currentTime = SumCeil(Len(pcbs))
              /\ Len(out) = SumCeil(Len(pcbs))

\* Three dispatches of one process, with the others in between until they
\* are finished
RoundRobinWitness ==
    /\ phase = "done"
    /\ Len(pcbs) = 3
    /\ pcbs[1].total_work = 5 /\ pcbs[2].total_work = 2
    /\ pcbs[3].total_work = 3
    /\ dispatched = <<1, 2, 3, 1, 3, 1>>
    /\ Len(out) = 6

====
